---- MODULE Spec2Model ----
(***************************************************************************)
(* Model of xmmsclient/sync.py: class XmmsSync, a proxy over an XMMS       *)
(* client object that turns operations returning an XmmsResult into        *)
(* blocking calls returning the value (or raising the carried error).      *)
(*                                                                         *)
(* Callers are threads of the host program; each one reads attributes of   *)
(* the one proxy, calls the adapters it obtained, or enumerates the proxy. *)
(* The underlying client and its XmmsResult objects live in xmmsapi; the   *)
(* model keeps of them only what sync.py uses: member lookup, the call of  *)
(* an operation, wait / is_error / value / xvalue.get_error.               *)
(***************************************************************************)
EXTENDS Integers, Sequences, FiniteSets, TLC

\* Bound on the number of adapter calls (and so of XmmsResult objects).
MaxCalls == 2

Callers == {"t1", "t2"}

\* The absent argument (Python None) of the constructor.
None == "None"

\* Client names a caller may pass as clientname.
ClientNames == {None, "myclient"}

\* Client objects a caller may pass as xmms (NoClient: the argument is omitted).
NoClient == [src |-> "none", id |-> "none"]
GivenClients == {[src |-> "given", id |-> "cA"]}
BuiltClients == {[src |-> "built", id |-> n] : n \in ClientNames}
Clients == GivenClients \cup BuiltClients

\* Member names looked up on the proxy.
Names == {"_xmms", "base_member", "ping", "plain", "version", "extra", "missing"}

\* Values and error objects an XmmsResult may resolve to; an error object
\* is identified by its name (object identity).
Values == {"V1", "V2"}
Errors == {"E1"}

\* Positional and keyword arguments of a call.
PosArgs == {<<>>, <<"a", "b">>}
KwArgs == {{}, {<<"k", "a">>}}

VARIABLES xmms, built, ctor, members, results, ncalls,
          pc, attr, args, kwargs, ret, invoked, trace, out, listing

vars == <<xmms, built, ctor, members, results, ncalls,
          pc, attr, args, kwargs, ret, invoked, trace, out, listing>>

frame == <<args, kwargs, ret, invoked, trace, out>>

----------------------------------------------------------------------------
(* The underlying client (xmmsapi), as far as sync.py observes it.         *)

\* What a member of a client is: an operation returning an XmmsResult, an
\* operation returning a plain value, or a non-callable attribute.
MemberKind(name) ==
    CASE name = "ping" -> "deferred"
      [] name = "plain" -> "direct"
      [] OTHER -> "attribute"

\* Member names a client object starts with.
InitialMembers(c) ==
    IF c.src = "given" THEN {"_xmms", "base_member", "ping", "plain", "version"}
    ELSE {"ping", "plain", "version"}

\* Value of attribute name of client c, and the value operation name of
\* client c returns directly.
AttrValue(c, name) == "attr:" \o c.id \o "." \o name
DirectValue(c, name) == "ret:" \o c.id \o "." \o name

NoResult == [st |-> "none", val |-> "none", by |-> "none"]
Dropped == [st |-> "dropped", val |-> "none", by |-> "none"]
Handles == 1..MaxCalls

NoAttr == [kind |-> "none", name |-> "none", val |-> "none", self |-> NoClient]
NoRet == [isres |-> FALSE, h |-> 0, val |-> "none"]
NoOut == [kind |-> "none", val |-> "none"]

\* getattr(obj, name): the member, or AttributeError raised by the lookup on obj.
getattr(c, mem, name) ==
    IF name \in mem[c]
    THEN [kind |-> MemberKind(name), name |-> name,
          val |-> AttrValue(c, name), self |-> c]
    ELSE [kind |-> "AttributeError", name |-> name, val |-> "none", self |-> c]

\* dir(obj)
dir(c, mem) == mem[c]

----------------------------------------------------------------------------
(* xmmsapi.XmmsProxy, the base class of XmmsSync.                          *)

\* Names the base class resolves in its own __getattr__.
BaseMembers == {"base_member"}

\* Names found on the proxy object by the normal lookup, before __getattr__
\* is called: the reference stored by the base constructor.
OwnMembers == {"_xmms"}

\* Names the proxy class declares.
DeclaredMembers == {"__init__", "__getattr__", "__dir__", "_xmms"}

\* XmmsProxy.__init__(xmms) stores the reference.
XmmsProxy___init__(x) == x

\* XmmsProxy.__getattr__(name)
XmmsProxy___getattr__(name) ==
    IF name \in BaseMembers
    THEN [kind |-> "base", name |-> name, val |-> "base:" \o name, self |-> NoClient]
    ELSE [kind |-> "AttributeError", name |-> name, val |-> "none", self |-> NoClient]

\* xmmsapi.Xmms(clientname) builds a new client.
Xmms(clientname) == [src |-> "built", id |-> clientname]

----------------------------------------------------------------------------
(* XmmsSync                                                                *)

XmmsSync___init___AlwaysNew(clientname, x, b) ==
    [xmms |-> XmmsProxy___init__(Xmms(clientname)), built |-> Append(b, clientname)]

\* XmmsSync.__init__(clientname, xmms): the reference stored and the
\* clients built so far.
XmmsSync___init__(clientname, x, b) ==
    IF x = NoClient
    THEN [xmms |-> XmmsProxy___init__(Xmms(clientname)), built |-> Append(b, clientname)]
    ELSE [xmms |-> XmmsProxy___init__(x), built |-> b]

hasattr___call___Always(a) == TRUE

\* hasattr(attr, '__call__')
hasattr___call__(a) == a.kind \in {"deferred", "direct"}

XmmsSync___getattr___Swallow(c, mem, name) ==
    LET base == XmmsProxy___getattr__(name)
        a == getattr(c, mem, name)
    IN IF base.kind # "AttributeError" THEN base
       ELSE IF a.kind = "AttributeError"
            THEN [kind |-> "attribute", name |-> name, val |-> None, self |-> c]
       ELSE IF hasattr___call__(a)
            THEN [kind |-> "adapter", name |-> name, val |-> "sync:" \o name, self |-> c]
       ELSE a

\* XmmsSync.__getattr__(name): the base's answer when it has one, else the
\* member of the underlying client, wrapped in a sync adapter when callable.
\* The adapter's val stands for its func_name ('<sync version of name>'); the
\* copy of __doc__ and func_name is best-effort and changes nothing in a call.
XmmsSync___getattr__(c, mem, name) ==
    LET base == XmmsProxy___getattr__(name)
        a == getattr(c, mem, name)
    IN IF base.kind # "AttributeError" THEN base
       ELSE IF a.kind = "AttributeError" THEN a
       ELSE IF hasattr___call__(a)
            THEN [kind |-> "adapter", name |-> name, val |-> "sync:" \o name, self |-> c]
       ELSE a

\* proxy.<name>: the normal lookup, then __getattr__.
ReadAttr(c, mem, name) ==
    IF name \in OwnMembers
    THEN [kind |-> "own", name |-> name, val |-> c.id, self |-> c]
    ELSE XmmsSync___getattr__(c, mem, name)

XmmsSync___dir___Declared(c, mem) == DeclaredMembers

\* XmmsSync.__dir__()
XmmsSync___dir__(c, mem) == dir(c, mem)

ForwardArgs_DropKw(a, kw) == [pos |-> a, kw |-> {}]

\* attr(*args, **kwargs): the arguments the underlying operation receives.
ForwardArgs(a, kw) == [pos |-> a, kw |-> kw]

\* isinstance(ret, xmmsapi.XmmsResult)
IsXmmsResult(r) == r.isres

Adapter_next_NoWait(p, r, iserr) ==
    CASE p = "call" -> IF IsXmmsResult(r) THEN "is_error" ELSE "done"
      [] p = "wait" -> "is_error"
      [] p = "is_error" -> IF iserr THEN "raise" ELSE "value"
      [] OTHER -> "done"

\* Control flow of the adapter body: the statement that follows statement p.
Adapter_next(p, r, iserr) ==
    CASE p = "call" -> IF IsXmmsResult(r) THEN "wait" ELSE "done"
      [] p = "wait" -> "is_error"
      [] p = "is_error" -> IF iserr THEN "raise" ELSE "value"
      [] OTHER -> "done"

Adapter_return_None(r) == [kind |-> "return", val |-> None]

\* return ret
Adapter_return(r) == [kind |-> "return", val |-> r.val]

Adapter_raise_Wrapped(res) == [kind |-> "raise", val |-> "XmmsError(" \o res.val \o ")"]

\* raise ret.xvalue.get_error()
Adapter_raise(res) == [kind |-> "raise", val |-> res.val]

\* return ret.value()
Adapter_value(res) == [kind |-> "return", val |-> res.val]

LocalRet_Shared(t) == [isres |-> ret[t].isres, h |-> ncalls, val |-> ret[t].val]

\* ret is a local variable of the adapter call of caller t.
LocalRet(t) == ret[t]

\* XmmsResult.wait() returns once the result is resolved.
XmmsResult_wait(res) == res.st # "pending"

\* XmmsResult.is_error()
XmmsResult_is_error(res) == res.st = "error"

----------------------------------------------------------------------------
Init ==
    /\ xmms = NoClient
    /\ built = <<>>
    /\ ctor = [clientname |-> None, xmms |-> NoClient]
    /\ members = [c \in Clients |-> InitialMembers(c)]
    /\ results = [h \in Handles |-> NoResult]
    /\ ncalls = 0
    /\ pc = [t \in Callers |-> "idle"]
    /\ attr = [t \in Callers |-> NoAttr]
    /\ args = [t \in Callers |-> <<>>]
    /\ kwargs = [t \in Callers |-> {}]
    /\ ret = [t \in Callers |-> NoRet]
    /\ invoked = [t \in Callers |-> <<>>]
    /\ trace = [t \in Callers |-> <<>>]
    /\ out = [t \in Callers |-> NoOut]
    /\ listing = [t \in Callers |-> {}]

\* XmmsSync(clientname, xmms)
Construct(clientname, x) ==
    /\ xmms = NoClient
    /\ LET r == XmmsSync___init__(clientname, x, built)
       IN /\ xmms' = r.xmms
          /\ built' = r.built
    /\ ctor' = [clientname |-> clientname, xmms |-> x]
    /\ UNCHANGED <<members, results, ncalls, pc, attr, frame, listing>>

\* The client gains or loses a member (its own doing, not the proxy's).
ClientSetAttr ==
    /\ xmms # NoClient
    /\ "extra" \notin members[xmms]
    /\ members' = [members EXCEPT ![xmms] = @ \cup {"extra"}]
    /\ UNCHANGED <<xmms, built, ctor, results, ncalls, pc, attr, frame, listing>>

ClientDelAttr ==
    /\ xmms # NoClient
    /\ "extra" \in members[xmms]
    /\ members' = [members EXCEPT ![xmms] = @ \ {"extra"}]
    /\ UNCHANGED <<xmms, built, ctor, results, ncalls, pc, attr, frame, listing>>

\* proxy.<name>
GetAttr(t, name) ==
    /\ xmms # NoClient
    /\ pc[t] = "idle"
    /\ attr' = [attr EXCEPT ![t] = ReadAttr(xmms, members, name)]
    /\ pc' = [pc EXCEPT ![t] = "held"]
    /\ UNCHANGED <<xmms, built, ctor, members, results, ncalls, frame, listing>>

\* dir(proxy)
Dir(t) ==
    /\ xmms # NoClient
    /\ pc[t] = "idle"
    /\ listing' = [listing EXCEPT ![t] = XmmsSync___dir__(xmms, members)]
    /\ pc' = [pc EXCEPT ![t] = "listed"]
    /\ UNCHANGED <<xmms, built, ctor, members, results, ncalls, attr, frame>>

\* The adapter is called: ret = attr(*args, **kwargs), then the isinstance test.
AdapterCall(t, a, kw) ==
    /\ pc[t] = "held"
    /\ attr[t].kind = "adapter"
    /\ ncalls < MaxCalls
    /\ LET op == attr[t].name
           c == attr[t].self
           h == ncalls + 1
           r == IF MemberKind(op) = "deferred"
                THEN [isres |-> TRUE, h |-> h, val |-> "XmmsResult"]
                ELSE [isres |-> FALSE, h |-> 0, val |-> DirectValue(c, op)]
           n == Adapter_next("call", r, FALSE)
       IN /\ args' = [args EXCEPT ![t] = a]
          /\ kwargs' = [kwargs EXCEPT ![t] = kw]
          /\ ncalls' = h
          /\ invoked' = [invoked EXCEPT ![t] =
                 Append(@, [name |-> op, self |-> c, args |-> ForwardArgs(a, kw)])]
          /\ trace' = [trace EXCEPT ![t] = Append(@, [op |-> "invoke", h |-> r.h, st |-> "none"])]
          /\ results' = IF r.isres
                        THEN [results EXCEPT ![h] = [st |-> "pending", val |-> "none", by |-> t]]
                        ELSE results
          /\ ret' = [ret EXCEPT ![t] = r]
          /\ pc' = [pc EXCEPT ![t] = n]
          /\ out' = [out EXCEPT ![t] = IF n = "done" THEN Adapter_return(r) ELSE @]
    /\ UNCHANGED <<xmms, built, ctor, members, attr, listing>>

AdapterWait_Twice(t) ==
    /\ pc[t] = "wait"
    /\ LET res == results[LocalRet(t).h]
           e == [op |-> "wait", h |-> LocalRet(t).h, st |-> res.st]
       IN /\ XmmsResult_wait(res)
          /\ trace' = [trace EXCEPT ![t] = Append(Append(@, e), e)]
    /\ pc' = [pc EXCEPT ![t] = Adapter_next("wait", LocalRet(t), FALSE)]
    /\ UNCHANGED <<xmms, built, ctor, members, results, ncalls, attr,
                   args, kwargs, ret, invoked, out, listing>>

\* ret.wait()
AdapterWait(t) ==
    /\ pc[t] = "wait"
    /\ LET res == results[LocalRet(t).h]
       IN /\ XmmsResult_wait(res)
          /\ trace' = [trace EXCEPT ![t] = Append(@, [op |-> "wait", h |-> LocalRet(t).h, st |-> res.st])]
    /\ pc' = [pc EXCEPT ![t] = Adapter_next("wait", LocalRet(t), FALSE)]
    /\ UNCHANGED <<xmms, built, ctor, members, results, ncalls, attr,
                   args, kwargs, ret, invoked, out, listing>>

\* if ret.is_error():
AdapterIsError(t) ==
    /\ pc[t] = "is_error"
    /\ LET res == results[LocalRet(t).h]
       IN /\ trace' = [trace EXCEPT ![t] = Append(@, [op |-> "is_error", h |-> LocalRet(t).h, st |-> res.st])]
          /\ pc' = [pc EXCEPT ![t] =
                 Adapter_next("is_error", LocalRet(t), XmmsResult_is_error(res))]
    /\ UNCHANGED <<xmms, built, ctor, members, results, ncalls, attr,
                   args, kwargs, ret, invoked, out, listing>>

\* raise ret.xvalue.get_error()
AdapterRaise(t) ==
    /\ pc[t] = "raise"
    /\ LET res == results[LocalRet(t).h]
       IN /\ trace' = [trace EXCEPT ![t] = Append(@, [op |-> "get_error", h |-> LocalRet(t).h, st |-> res.st])]
          /\ out' = [out EXCEPT ![t] = Adapter_raise(res)]
    /\ pc' = [pc EXCEPT ![t] = "done"]
    /\ UNCHANGED <<xmms, built, ctor, members, results, ncalls, attr,
                   args, kwargs, ret, invoked, listing>>

\* return ret.value()
AdapterValue(t) ==
    /\ pc[t] = "value"
    /\ LET res == results[LocalRet(t).h]
       IN /\ trace' = [trace EXCEPT ![t] = Append(@, [op |-> "value", h |-> LocalRet(t).h, st |-> res.st])]
          /\ out' = [out EXCEPT ![t] = Adapter_value(res)]
    /\ pc' = [pc EXCEPT ![t] = "done"]
    /\ UNCHANGED <<xmms, built, ctor, members, results, ncalls, attr,
                   args, kwargs, ret, invoked, listing>>

\* The underlying client resolves a pending result, once.
Resolve(h, st, v) ==
    /\ results[h].st = "pending"
    /\ results' = [results EXCEPT ![h].st = st, ![h].val = v]
    /\ UNCHANGED <<xmms, built, ctor, members, ncalls, pc, attr, frame, listing>>

\* The caller drops what the last expression gave it; the result object of a
\* finished call goes with it.
Discard(t) ==
    /\ pc[t] \in {"held", "listed", "done"}
    /\ results' = IF ret[t].isres THEN [results EXCEPT ![ret[t].h] = Dropped] ELSE results
    /\ pc' = [pc EXCEPT ![t] = "idle"]
    /\ attr' = [attr EXCEPT ![t] = NoAttr]
    /\ args' = [args EXCEPT ![t] = <<>>]
    /\ kwargs' = [kwargs EXCEPT ![t] = {}]
    /\ ret' = [ret EXCEPT ![t] = NoRet]
    /\ invoked' = [invoked EXCEPT ![t] = <<>>]
    /\ trace' = [trace EXCEPT ![t] = <<>>]
    /\ out' = [out EXCEPT ![t] = NoOut]
    /\ listing' = [listing EXCEPT ![t] = {}]
    /\ UNCHANGED <<xmms, built, ctor, members, ncalls>>

Next ==
    \/ \E n \in ClientNames, x \in GivenClients \cup {NoClient} : Construct(n, x)
    \/ ClientSetAttr
    \/ ClientDelAttr
    \/ \E t \in Callers, name \in Names : GetAttr(t, name)
    \/ \E t \in Callers : Dir(t)
    \/ \E t \in Callers, a \in PosArgs, kw \in KwArgs : AdapterCall(t, a, kw)
    \/ \E t \in Callers : AdapterWait(t)
    \/ \E t \in Callers : AdapterIsError(t)
    \/ \E t \in Callers : AdapterRaise(t)
    \/ \E t \in Callers : AdapterValue(t)
    \/ \E h \in Handles, v \in Values : Resolve(h, "value", v)
    \/ \E h \in Handles, e \in Errors : Resolve(h, "error", e)
    \/ \E t \in Callers : Discard(t)

Spec == Init /\ [][Next]_vars

----------------------------------------------------------------------------
(* Properties                                                              *)

Resolved(h) == results[h].st \in {"value", "error"}
Ops(tr) == [i \in 1..Len(tr) |-> tr[i].op]
IsPrefix(s, f) == Len(s) <= Len(f) /\ \A i \in 1..Len(s) : s[i] = f[i]
NumOps(tr, o) == Cardinality({i \in 1..Len(tr) : tr[i].op = o})
Unshadowed(n) == n \notin OwnMembers \cup BaseMembers
Finished(t) == pc[t] = "done"
Reads(t) == pc[t] = "idle" /\ pc'[t] = "held"

\* C1: a finished adapter call whose underlying operation returned a result
\* that resolved to the value V has returned V, and the underlying operation
\* was invoked once, on the client, with the caller's positional and keyword
\* arguments as given.
C1_ValueReturned ==
    \A t \in Callers :
        (Finished(t) /\ ret[t].isres /\ results[ret[t].h].st = "value") =>
            /\ out[t] = [kind |-> "return", val |-> results[ret[t].h].val]
            /\ invoked[t] = << [name |-> attr[t].name, self |-> xmms,
                                args |-> [pos |-> args[t], kw |-> kwargs[t]]] >>

C1_Witness ==
    \E t \in Callers :
        /\ Finished(t) /\ ret[t].isres /\ results[ret[t].h].st = "value"
        /\ out[t].val = "V2" /\ args[t] # <<>> /\ kwargs[t] # {}

\* C2: an adapter call whose result resolved to an error carrying E never
\* reads the result's value and never returns; once finished it has raised
\* E itself.
C2_ErrorRaised ==
    \A t \in Callers :
        (ret[t].isres /\ results[ret[t].h].st = "error") =>
            /\ NumOps(trace[t], "value") = 0
            /\ out[t].kind # "return"
            /\ Finished(t) => out[t] = [kind |-> "raise", val |-> results[ret[t].h].val]

C2_Witness ==
    \E t \in Callers :
        /\ Finished(t) /\ ret[t].isres /\ results[ret[t].h].st = "error"
        /\ out[t] = [kind |-> "raise", val |-> "E1"]

\* C3: a finished adapter call whose underlying operation returned a value
\* that is not a result handle has returned that value, and has called none
\* of wait, is_error, value, get_error.
C3_PlainPassthrough ==
    \A t \in Callers :
        (Finished(t) /\ ~ret[t].isres) =>
            /\ out[t] = [kind |-> "return", val |-> ret[t].val]
            /\ Ops(trace[t]) = <<"invoke">>

C3_Witness ==
    \E t \in Callers :
        /\ Finished(t) /\ ~ret[t].isres /\ attr[t].name = "plain"
        /\ out[t].val = DirectValue(xmms, "plain")

\* C4: reading a non-callable attribute of the client, whose name neither
\* the proxy nor its base defines, yields the attribute's value; the read
\* creates no adapter, invokes no operation and touches no result.
C4_AttributePassthrough ==
    [][\A t \in Callers : \A n \in Names :
        (Reads(t) /\ attr'[t].name = n /\ n \in members[xmms]
           /\ MemberKind(n) = "attribute" /\ Unshadowed(n)) =>
            /\ attr'[t] = [kind |-> "attribute", name |-> n,
                           val |-> AttrValue(xmms, n), self |-> xmms]
            /\ ncalls' = ncalls /\ results' = results
            /\ trace'[t] = <<>> /\ invoked'[t] = <<>> /\ out'[t] = NoOut]_vars

C4_Witness ==
    \E t \in Callers :
        /\ pc[t] = "held" /\ attr[t].name = "version"
        /\ attr[t].val = AttrValue(xmms, "version")

\* C5: dir(proxy) returns the member names of the underlying client at the
\* moment of the call, whatever reads and calls came before.
C5_DirIsClientDir ==
    [][\A t \in Callers :
        (pc[t] = "idle" /\ pc'[t] = "listed") => listing'[t] = members[xmms]]_vars

C5_Witness ==
    \E t \in Callers :
        /\ pc[t] = "listed" /\ "extra" \in listing[t]
        /\ listing[t] # DeclaredMembers /\ ncalls > 0

\* C6: reading a name that the proxy, its base and the client all lack fails
\* with the AttributeError of the lookup on the client; no adapter is
\* returned and no operation is invoked.
C6_LookupFailure ==
    [][\A t \in Callers : \A n \in Names :
        (Reads(t) /\ attr'[t].name = n /\ n \notin members[xmms] /\ Unshadowed(n)) =>
            /\ attr'[t] = [kind |-> "AttributeError", name |-> n,
                           val |-> "none", self |-> xmms]
            /\ ncalls' = ncalls /\ results' = results /\ invoked'[t] = <<>>]_vars

C6_Witness ==
    \E t \in Callers :
        pc[t] = "held" /\ attr[t].kind = "AttributeError" /\ attr[t].name = "missing"

\* C7: after construction the proxy's reference is the supplied client when
\* one was given (no client is built, the name is ignored), otherwise the one
\* client built with the given name; no later step changes the reference.
C7_OneClientReference ==
    /\ [](xmms # NoClient =>
            IF ctor.xmms # NoClient
            THEN xmms = ctor.xmms /\ built = <<>>
            ELSE xmms = [src |-> "built", id |-> ctor.clientname]
                 /\ built = <<ctor.clientname>>)
    /\ [][xmms # NoClient => xmms' = xmms]_vars

C7_Witness ==
    /\ ctor.xmms # NoClient /\ ctor.clientname = "myclient" /\ xmms = ctor.xmms
    /\ \E t \in Callers : Finished(t) /\ out[t].kind = "raise"

\* C8: in an adapter call whose operation returned a result handle the steps
\* come in the order invoke, wait, is_error, then get_error or value; every
\* wait return, is_error, get_error and value sees a resolved result, and the
\* call has an outcome only once its result is resolved.
C8_ObservesTerminalOnly ==
    \A t \in Callers :
        ret[t].isres =>
            /\ \/ IsPrefix(Ops(trace[t]), <<"invoke", "wait", "is_error", "get_error">>)
               \/ IsPrefix(Ops(trace[t]), <<"invoke", "wait", "is_error", "value">>)
            /\ \A i \in 2..Len(trace[t]) : trace[t][i].st \in {"value", "error"}
            /\ out[t].kind # "none" => Resolved(ret[t].h)
            /\ pc[t] \in {"is_error", "raise", "value", "done"} => Resolved(ret[t].h)

C8_Witness ==
    \E t \in Callers :
        /\ ret[t].isres /\ pc[t] = "value"
        /\ Ops(trace[t]) = <<"invoke", "wait", "is_error">>

\* C9 as stated: every finished adapter call has issued exactly one wait.
C9_ExactlyOneWait ==
    \A t \in Callers : Finished(t) => NumOps(trace[t], "wait") = 1

\* C9 amended: a finished adapter call has issued exactly one wait when its
\* operation returned a result handle, and none when it returned another value.
C9_OneWaitPerDeferred ==
    \A t \in Callers :
        Finished(t) => NumOps(trace[t], "wait") = (IF ret[t].isres THEN 1 ELSE 0)

C9_Witness ==
    \E t \in Callers, u \in Callers :
        /\ Finished(t) /\ ret[t].isres /\ NumOps(trace[t], "wait") = 1
        /\ Finished(u) /\ ~ret[u].isres /\ NumOps(trace[u], "wait") = 0

\* C10: with several callers in adapter calls at once, each call accesses
\* only the result its own invocation returned and its outcome is that
\* result's; a call whose own result is resolved can always leave its wait,
\* whatever the state of the other calls' results.
C10_OwnResultOnly ==
    \A t \in Callers :
        ret[t].isres =>
            /\ results[ret[t].h].by = t
            /\ \A i \in 1..Len(trace[t]) : trace[t][i].h = ret[t].h
            /\ Finished(t) => out[t].val = results[ret[t].h].val
            /\ (pc[t] = "wait" /\ Resolved(ret[t].h)) => ENABLED AdapterWait(t)

C10_Witness ==
    \E t \in Callers, u \in Callers :
        /\ t # u /\ ret[t].isres /\ ret[u].isres /\ ret[t].h > ret[u].h
        /\ Finished(t) /\ pc[u] = "wait" /\ ~Resolved(ret[u].h)

====
